---- MODULE Spec2Model ----
(***************************************************************************)
(* Model of the node runtime of the local-network chat (src/src/main.js)   *)
(* and of the part of the renderer that feeds it (src/src/renderer.js).    *)
(*                                                                         *)
(* Every node n keeps the module-level state of main.js: udpSocket,        *)
(* currentRoom, displayName, myPeerId, roomKey, peers, messages and        *)
(* processedMessages.  Handlers are translated one action per              *)
(* run-to-completion segment: an `await` in an async handler ends one      *)
(* action and starts the next.                                             *)
(*                                                                         *)
(* Strings that the code inspects character by character (room names and   *)
(* display names) are sequences of one-character strings.  MD5, PBKDF2 and *)
(* AES-GCM are modelled by what the code relies on: a deterministic hash,  *)
(* a key determined by the room name, and a sealed value that opens only   *)
(* under the key that sealed it and only with an intact tag.               *)
(***************************************************************************)
EXTENDS Integers, Sequences, FiniteSets, TLC

VARIABLES
  udpSocket,          \* n -> 0 (null) or the port the socket is bound to
  currentRoom,        \* n -> Null or the room name
  displayName,        \* n -> Null or the display name
  myPeerId,           \* n -> 0 (null) or the session's peer id
  roomKey,            \* n -> Null or the derived key
  peers,              \* n -> [peerId -> peer record]
  messages,           \* n -> sequence of chat records (the message log)
  processedMessages,  \* n -> insertion-ordered set of message ids (a sequence)
  join,               \* n -> the join-room call suspended at its bind await
  leave,              \* n -> "idle" or "wait" (leave-room in its 100 ms delay)
  histTimers,         \* n -> number of armed 500 ms history-request timers
  timers,             \* n -> the peer sweeper: when cleanupPeers last ran and
                      \*      the armed 100 ms removal timers
  net,                \* datagrams in flight to a node's socket
  now,                \* Date.now()
  nextId,             \* source of fresh message ids (crypto.randomBytes(16))
  nextPeer,           \* source of fresh peer ids (crypto.randomBytes(8))
  ev,                 \* what the last handler did: return value, sends, dispatch
  hist,               \* n -> per-session dispatch history (observation only)
  joined              \* n -> the last join-room to return succeeded and no
                      \*      leave-room has returned since (observation only)

vars == <<udpSocket, currentRoom, displayName, myPeerId, roomKey, peers,
          messages, processedMessages, join, leave, histTimers, timers, net, now,
          nextId, nextPeer, ev, hist, joined>>

----------------------------------------------------------------------------
(* Program constants *)

BASE_PORT == 12000
DEDUP_MAX == 1000
DEDUP_PRUNE == 500
MAX_BIND_ATTEMPTS == 5
CHUNK_SIZE == 60000
HASH_MOD == 1000
PEER_TIMEOUT == 30000
SWEEP_INTERVAL == 5000
REMOVE_DELAY == 100

(* Bounds of the model *)

MaxIds == 5          \* message ids the nodes may generate
MaxLog == 2          \* entries a message log may hold
MaxInFlight == 1     \* datagrams queued towards one socket
MaxJoins == 2        \* join-room calls (each draws a fresh peer id)
MaxStream == 2       \* fresh ids the peer stream adds in SpecDedup
MaxClock == 1        \* clock ticks in SpecSync
MaxLen == 2          \* characters typed into the room field in SpecPort
MaxSweeps == 8       \* sweep intervals the clock runs through in SpecSweep
MaxGrams == 3        \* datagrams the LAN hosts send in SpecPeers
MaxThirds == 2       \* file sizes run up to MaxThirds * 45000 + 1 bytes in SpecChunk

Nodes == {"A", "B"}

Null == <<"null">>            \* JavaScript null for string-valued state
BROADCAST == "255.255.255.255"
Anonymous == <<"A","n","o","n","y","m","o","u","s">>

----------------------------------------------------------------------------
(* Strings *)

LowerAlpha == <<"a","b","c","d","e","f","g","h","i","j","k","l","m",
                "n","o","p","q","r","s","t","u","v","w","x","y","z">>
UpperAlpha == <<"A","B","C","D","E","F","G","H","I","J","K","L","M",
                "N","O","P","Q","R","S","T","U","V","W","X","Y","Z">>
Digits == {"0","1","2","3","4","5","6","7","8","9"}
Whitespace == {" ", "\t"}

Range(s) == {s[i] : i \in DOMAIN s}

IndexIn(alpha, c) == CHOOSE i \in DOMAIN alpha : alpha[i] = c

toLowerCase(c) == IF c \in Range(UpperAlpha) THEN LowerAlpha[IndexIn(UpperAlpha, c)] ELSE c

toUpperCase(c) == IF c \in Range(LowerAlpha) THEN UpperAlpha[IndexIn(LowerAlpha, c)] ELSE c

RECURSIVE trimStart(_)
trimStart(s) ==
  IF s # <<>> /\ Head(s) \in Whitespace THEN trimStart(Tail(s)) ELSE s

RECURSIVE trimEnd(_)
trimEnd(s) ==
  IF s # <<>> /\ s[Len(s)] \in Whitespace THEN trimEnd(SubSeq(s, 1, Len(s) - 1)) ELSE s

trim(s) == trimEnd(trimStart(s))

\* .replace(/\s+/g, '-'): every maximal run of whitespace becomes one dash
RECURSIVE dashSpaces(_)
dashSpaces(s) ==
  IF s = <<>> THEN <<>>
  ELSE IF Head(s) \in Whitespace
       THEN <<"-">> \o dashSpaces(trimStart(s))
       ELSE <<Head(s)>> \o dashSpaces(Tail(s))

lowerAll(s) == [i \in DOMAIN s |-> toLowerCase(s[i])]

\* .replace(/^./, char => char.toUpperCase())
capitalizeFirst(s) == IF s = <<>> THEN s ELSE <<toUpperCase(Head(s))>> \o Tail(s)

formatName(name) ==
  IF name = <<>> THEN <<>> ELSE capitalizeFirst(lowerAll(dashSpaces(trim(name))))

\* the room-name rule ^[A-Za-z0-9_-]+$
NameChars == Range(LowerAlpha) \cup Range(UpperAlpha) \cup Digits \cup {"_", "-"}

ValidRoomName(name) == name # <<>> /\ \A i \in DOMAIN name : name[i] \in NameChars

\* JavaScript truthiness of a string-or-null value
Truthy(s) == s # Null /\ s # <<>>

----------------------------------------------------------------------------
(* Port map and crypto channel *)

CharCode(c) ==
  IF c \in Range(LowerAlpha) THEN 96 + IndexIn(LowerAlpha, c)
  ELSE IF c \in Range(UpperAlpha) THEN 64 + IndexIn(UpperAlpha, c)
  ELSE IF c = "-" THEN 45 ELSE IF c = "_" THEN 95 ELSE IF c = "!" THEN 33 ELSE 48

\* stands for hash.readUInt16BE(0) of the MD5 digest: a fixed function of the
\* name with values in 0..65535
RECURSIVE Digest16(_)
Digest16(name) ==
  IF name = <<>> THEN 54301
  ELSE (Digest16(SubSeq(name, 1, Len(name) - 1)) * 31 + CharCode(name[Len(name)])) % 65536

\* the hash taken as it is, not reduced
getPortForRoomUnreduced(roomName) == BASE_PORT + Digest16(roomName)

\* lines 100-104
getPortForRoom(roomName) == BASE_PORT + (Digest16(roomName) % HASH_MOD)

deriveKey(roomName) == <<"key">> \o roomName

NoContent == [kind |-> "none"]
NoSeal == [kind |-> "none"]

\* encrypt(JSON.stringify(content), key)
encrypt(content, key) == [kind |-> "sealed", key |-> key, plain |-> content, tagOk |-> TRUE]

\* a cipher whose tag does not depend on the key
decryptAnyKey(encryptedData, key) ==
  IF encryptedData.kind = "sealed" /\ encryptedData.tagOk
  THEN encryptedData.plain
  ELSE NoContent

\* decrypt(): the plaintext, or NoContent (null) when GCM rejects the input
decrypt(encryptedData, key) ==
  IF encryptedData.kind = "sealed" /\ encryptedData.key = key /\ encryptedData.tagOk
  THEN encryptedData.plain
  ELSE NoContent

----------------------------------------------------------------------------
(* Envelopes, peer table, dedup cache *)

MESSAGE_TYPES == {"join", "message", "file_chunk", "ack", "history_request",
                  "status_request", "leave"}

NoData == [kind |-> "undefined"]     \* a file object without a data property

\* A file payload is text (the base64 encoding of the file).  A piece of text
\* is named by the file it encodes and the characters it spans: Text(f, a, b)
\* is characters a+1..b of the encoding of file f.
Text(of, from, to) == [kind |-> "text", of |-> of, from |-> from, to |-> to]

TextLen(text) == text.to - text.from

Least(a, b) == IF a < b THEN a ELSE b

\* String.prototype.substring for 0 <= start <= end: both clamped to the length
substring(text, start, end) ==
  Text(text.of, text.from + Least(start, TextLen(text)),
       text.from + Least(end, TextLen(text)))

Scrambled == [kind |-> "scrambled"]

\* concatenation: text that continues where the first piece ends, else
\* something that is no piece of the encoding
Cat(a, b) ==
  IF a = Scrambled \/ b = Scrambled THEN Scrambled
  ELSE IF TextLen(a) = 0 THEN b
  ELSE IF TextLen(b) = 0 THEN a
  ELSE IF a.of = b.of /\ a.to = b.from THEN Text(a.of, a.from, b.to)
  ELSE Scrambled
NoFiles == << [kind |-> "undefined"] >>   \* a message whose files property is undefined

Envelope(type, messageId, peerId, name, timestamp, content) ==
  [type |-> type, messageId |-> messageId, peerId |-> peerId, displayName |-> name,
   timestamp |-> timestamp, content |-> content, encrypted |-> NoSeal]

\* peers is a Map: a sequence of records in insertion order, one per peer id
PeerIds(tbl) == {tbl[i].peerId : i \in DOMAIN tbl}

PeerSet(tbl, rec) ==
  IF rec.peerId \in PeerIds(tbl)
  THEN [i \in DOMAIN tbl |-> IF tbl[i].peerId = rec.peerId THEN rec ELSE tbl[i]]
  ELSE Append(tbl, rec)

PeerDelete(tbl, peerId) == SelectSeq(tbl, LAMBDA r : r.peerId # peerId)

\* the self-origin test left out
IsOwnMessageNever(message, self) == FALSE

\* line 133: if (message.peerId === myPeerId) return
IsOwnMessage(message, self) == message.peerId = self

\* the duplicate test left out
IsDuplicateNever(message, processed) == FALSE

\* line 138: message.messageId && processedMessages.has(message.messageId)
IsDuplicate(message, processed) ==
  message.messageId # 0 /\ message.messageId \in Range(processed)

\* the clean-up left out
PruneProcessedNever(processed) == processed

\* the clean-up deleting the newest ids instead of the oldest
PruneProcessedNewest(processed) ==
  IF Len(processed) > DEDUP_MAX
  THEN SubSeq(processed, 1, Len(processed) - DEDUP_PRUNE)
  ELSE processed

\* lines 147-150: delete the first DEDUP_PRUNE ids once the set exceeds DEDUP_MAX
PruneProcessed(processed) ==
  IF Len(processed) > DEDUP_MAX
  THEN SubSeq(processed, DEDUP_PRUNE + 1, Len(processed))
  ELSE processed

\* lines 143-151
RecordProcessed(message, processed) ==
  IF message.messageId # 0
  THEN PruneProcessed(Append(processed, message.messageId))
  ELSE processed

\* the open failure ignored: the envelope goes on as it arrived
OpenEnvelopeAnyway(message, key) == [ok |-> TRUE, message |-> message]

\* lines 154-162: [ok, message]; ok is FALSE when decrypt() returned null
OpenEnvelope(message, key) ==
  IF message.encrypted # NoSeal /\ key # Null
  THEN LET decrypted == decrypt(message.encrypted, key)
       IN IF decrypted # NoContent
          THEN [ok |-> TRUE, message |-> [message EXCEPT !.content = decrypted]]
          ELSE [ok |-> FALSE, message |-> message]
  ELSE [ok |-> TRUE, message |-> message]

\* lines 165-173
RefreshPeer(tbl, message, self, rinfo, t) ==
  IF message.peerId > 0 /\ message.peerId # self
  THEN PeerSet(tbl, [peerId |-> message.peerId, address |-> rinfo.address,
                     port |-> rinfo.port, lastSeen |-> t,
                     displayName |-> message.displayName, hasTimedOut |-> FALSE])
  ELSE tbl

\* lines 214-223: the record handleChatMessage pushes
ChatRecord(message) ==
  [id |-> message.messageId, sender |-> message.displayName,
   structure |-> message.content.structure,
   files |-> IF message.content.files = NoFiles THEN <<>> ELSE message.content.files,
   timestamp |-> message.timestamp]

\* the record put in front of the log
handleChatMessageFront(log, message) == <<ChatRecord(message)>> \o log

\* line 223: messages.push(chatMessage)
handleChatMessage(log, message) == Append(log, ChatRecord(message))

\* the departing peer kept in the table
handleLeaveMessageKeeps(tbl, message) == tbl

\* lines 283-287
handleLeaveMessage(tbl, message) == PeerDelete(tbl, message.peerId)

\* a join answered by showing the newcomer in the chat
handleJoinMessageAnnounces(result) == [result EXCEPT !.ui = "new-message"]

\* lines 207-212, 234-236 and 279-281: handleJoinMessage only writes to the
\* console, handleAckMessage and handleStatusRequest have empty bodies
handleJoinMessage(result) == result

handleAckMessage(result) == result

handleStatusRequest(result) == result

----------------------------------------------------------------------------
(* Sending *)

\* lines 306-311: the envelope as serialized by sendMessage
OnWire(message, key) ==
  IF key # Null /\ message.content # NoContent
  THEN [message EXCEPT !.encrypted = encrypt(message.content, key), !.content = NoContent]
  ELSE message

\* lines 303-320: the datagrams one sendMessage call emits
sendMessage(sock, key, message, address, port) ==
  IF sock = 0 THEN <<>>
  ELSE << [env |-> OnWire(message, key), address |-> address, port |-> port] >>

\* the general broadcast aimed at the port the socket is bound to
broadcastMessageOwnPort(room, sock, key, tbl, self, message) ==
  IF ~Truthy(room) \/ sock = 0 THEN <<>>
  ELSE LET known == SelectSeq(tbl, LAMBDA r : r.peerId # self)
       IN [i \in DOMAIN known |->
             [env |-> OnWire(message, key), address |-> known[i].address,
              port |-> known[i].port]]
          \o sendMessage(sock, key, message, BROADCAST, sock)

\* lines 322-343: unicast to every known peer, then the general broadcast
broadcastMessage(room, sock, key, tbl, self, message) ==
  IF ~Truthy(room) \/ sock = 0 THEN <<>>
  ELSE LET known == SelectSeq(tbl, LAMBDA r : r.peerId # self)
       IN [i \in DOMAIN known |->
             [env |-> OnWire(message, key), address |-> known[i].address,
              port |-> known[i].port]]
          \o sendMessage(sock, key, message, BROADCAST, getPortForRoom(room))

\* UDP delivery: a datagram reaches the sockets bound to its destination port
\* at its destination address (every host for the broadcast address)
Deliveries(socks, sender, datagrams) ==
  {[to |-> m, env |-> datagrams[i].env,
    from |-> [address |-> sender, port |-> socks[sender]]] :
     <<m, i>> \in {<<m, i>> \in Nodes \X DOMAIN datagrams :
                     /\ socks[m] # 0
                     /\ socks[m] = datagrams[i].port
                     /\ datagrams[i].address \in {BROADCAST, m}}}

\* every socket's receive queue has room for what is in flight to it
Fits(inflight) ==
  \A m \in Nodes : Cardinality({d \in inflight : d.to = m}) <= MaxInFlight

\* socket.close(): datagrams queued on the socket are discarded
CloseSocket(n, inflight) == {d \in inflight : d.to # n}

Sent(datagrams) ==
  [i \in DOMAIN datagrams |->
     [type |-> datagrams[i].env.type, messageId |-> datagrams[i].env.messageId,
      address |-> datagrams[i].address, port |-> datagrams[i].port]]

----------------------------------------------------------------------------
(* History replay, lines 238-277 *)

ChunkCount(file) ==
  IF file.data = NoData \/ TextLen(file.data) = 0 THEN 0
  ELSE (TextLen(file.data) + CHUNK_SIZE - 1) \div CHUNK_SIZE

\* a chunk that stops one character early
ChunkDataShort(file, i) ==
  substring(file.data, i * CHUNK_SIZE, (i + 1) * CHUNK_SIZE - 1)

\* line 259: file.data.substring(i * 60000, (i + 1) * 60000)
ChunkData(file, i) ==
  substring(file.data, i * CHUNK_SIZE, (i + 1) * CHUNK_SIZE)

FileChunkMessages(file, self, name, t, firstId) ==
  [j \in 1..ChunkCount(file) |->
     Envelope("file_chunk", firstId + j - 1, self, name, t,
              [kind |-> "chunk", fileId |-> file.id, chunkIndex |-> j - 1,
               chunkData |-> ChunkData(file, j - 1)])]

RECURSIVE FilesChunkMessages(_, _, _, _, _)
FilesChunkMessages(files, self, name, t, firstId) ==
  IF files = <<>> THEN <<>>
  ELSE FileChunkMessages(Head(files), self, name, t, firstId)
       \o FilesChunkMessages(Tail(files), self, name, t, firstId + ChunkCount(Head(files)))

FileMeta(files) ==
  [i \in DOMAIN files |-> [id |-> files[i].id, name |-> files[i].name,
                           size |-> files[i].size, data |-> NoData]]

historyMessage(msg, self) ==
  Envelope("message", msg.id, self, msg.sender, msg.timestamp,
           [kind |-> "msg", structure |-> msg.structure, files |-> FileMeta(msg.files)])

\* the envelopes handleHistoryRequest passes to sendMessage, in order; a log
\* entry whose files is undefined makes msg.files.map throw and ends the loop
RECURSIVE handleHistoryRequest(_, _, _, _, _)
handleHistoryRequest(log, self, name, t, firstId) ==
  IF log = <<>> \/ Head(log).files = NoFiles THEN <<>>
  ELSE LET msg == Head(log)
           chunks == FilesChunkMessages(msg.files, self, name, t, firstId)
       IN <<historyMessage(msg, self)>> \o chunks
          \o handleHistoryRequest(Tail(log), self, name, t, firstId + Len(chunks))

ReplayThrows(log) == \E i \in DOMAIN log : log[i].files = NoFiles

----------------------------------------------------------------------------
(* Observation of the last handler run *)

NoSource == [address |-> "none", port |-> 0]

NoEv == [op |-> "none", node |-> "A", success |-> TRUE, port |-> 0, room |-> Null,
         binds |-> 0, other |-> FALSE, sent |-> <<>>, own |-> FALSE, dispatched |-> "none", messageId |-> 0,
         changed |-> FALSE, ui |-> "none", error |-> FALSE,
         prevPort |-> 0,           \* join-room: the port of the session it replaced
         wire |-> <<>>,            \* the datagrams handed to udpSocket.send
         env |-> NoSeal,           \* the envelope a receive handler was given
         from |-> NoSource]        \* and its rinfo

NoHist == [count |-> 0, at |-> <<>>, again |-> {}, carried |-> 0]

NoTimers == [sweptAt |-> 0, removals |-> {}]

\* prev: the port of the session this call replaces, when that session is in
\* the same room and no leave-room came in between (observation only)
NoJoin == [pc |-> "idle", attempt |-> 0, port |-> 0, room |-> Null, other |-> FALSE,
           prev |-> 0]

\* the dispatch history after an envelope with this id reached handleMessage
\* (recorded: whether the id was added to processedMessages by this datagram)
HistDispatch(h, messageId, recorded) ==
  LET c == IF recorded THEN h.count + 1 ELSE h.count
  IN IF messageId = 0 THEN h
     ELSE [carried |-> h.carried, count |-> c,
           at |-> [m \in DOMAIN h.at \cup {messageId} |-> IF m = messageId THEN c ELSE h.at[m]],
           again |-> IF messageId \in DOMAIN h.at
                     THEN h.again \cup {[messageId |-> messageId, gap |-> c - h.at[messageId] - 1]}
                     ELSE h.again]

HistRecord(h, recorded) == IF recorded THEN [h EXCEPT !.count = @ + 1] ELSE h

----------------------------------------------------------------------------
(* Initial state: main.js lines 10-19 *)

Init ==
  /\ udpSocket = [n \in Nodes |-> 0]
  /\ currentRoom = [n \in Nodes |-> Null]
  /\ displayName = [n \in Nodes |-> Null]
  /\ myPeerId = [n \in Nodes |-> 0]
  /\ roomKey = [n \in Nodes |-> Null]
  /\ peers = [n \in Nodes |-> <<>>]
  /\ messages = [n \in Nodes |-> <<>>]
  /\ processedMessages = [n \in Nodes |-> <<>>]
  /\ join = [n \in Nodes |-> NoJoin]
  /\ leave = [n \in Nodes |-> "idle"]
  /\ histTimers = [n \in Nodes |-> 0]
  /\ timers = [n \in Nodes |-> NoTimers]
  /\ net = {}
  /\ now = 0
  /\ nextId = 1
  /\ nextPeer = 1
  /\ ev = NoEv
  /\ hist = [n \in Nodes |-> NoHist]
  /\ joined = [n \in Nodes |-> FALSE]

----------------------------------------------------------------------------
(* join-room, lines 381-488, entered through the renderer's joinRoom *)

\* renderer.js 456-464: the room field is empty after formatting, no IPC call
JoinRejectedByForm(n, rawRoom) ==
  /\ formatName(rawRoom) = <<>>
  /\ ev' = [NoEv EXCEPT !.op = "joinRoom:empty", !.node = n, !.success = FALSE]
  /\ UNCHANGED <<udpSocket, currentRoom, displayName, myPeerId, roomKey, peers,
                 messages, processedMessages, join, leave, histTimers, timers, net, now,
                 nextId, nextPeer, hist, joined>>

\* renderer.js 457-458
FormRoom(rawRoom) == formatName(rawRoom)

FormName(rawName) == IF trim(rawName) # <<>> THEN formatName(rawName) ELSE <<>>

\* lines 381-416: up to the first bind await
JoinRoomStart(n, rawRoom, rawName) ==
  LET roomName == FormRoom(rawRoom)
      userName == FormName(rawName)
  IN /\ roomName # <<>>
     /\ join[n].pc = "idle"
     /\ nextPeer <= MaxJoins
     /\ udpSocket' = [udpSocket EXCEPT ![n] = 0]
     /\ net' = IF udpSocket[n] # 0 THEN CloseSocket(n, net) ELSE net
     /\ currentRoom' = [currentRoom EXCEPT ![n] = roomName]
     /\ displayName' = [displayName EXCEPT ![n] = IF userName = <<>> THEN Anonymous ELSE userName]
     /\ myPeerId' = [myPeerId EXCEPT ![n] = nextPeer]
     /\ nextPeer' = nextPeer + 1
     /\ roomKey' = [roomKey EXCEPT ![n] = deriveKey(roomName)]
     /\ join' = [join EXCEPT ![n] = [pc |-> "bind", attempt |-> 0,
                                     port |-> getPortForRoom(roomName), room |-> roomName,
                                     other |-> FALSE,
                                     prev |-> IF joined[n] /\ leave[n] = "idle"
                                                 /\ currentRoom[n] = roomName
                                              THEN udpSocket[n] ELSE 0]]
     /\ hist' = [hist EXCEPT ![n] = [NoHist EXCEPT !.carried = Len(messages[n])]]
     /\ ev' = [NoEv EXCEPT !.op = "join-room:start", !.node = n, !.room = roomName]
     /\ UNCHANGED <<peers, messages, processedMessages, leave, histTimers, timers, now, nextId,
                    joined>>

\* lines 438-445: what the catch block does with a failed bind
AfterBindFailure(code, attempt) ==
  IF code = "EADDRINUSE" /\ attempt < 4 THEN "continue"
  ELSE IF attempt = 4 THEN "throw"
  ELSE "continue"

\* lines 416-446, 484-487: a bind attempt failed (code # "ok")
JoinBindFailed(n, code) ==
  /\ join[n].pc = "bind"
  /\ IF AfterBindFailure(code, join[n].attempt) = "continue"
     THEN /\ join' = [join EXCEPT ![n].attempt = @ + 1,
                                  ![n].other = @ \/ code # "EADDRINUSE"]
          /\ ev' = [NoEv EXCEPT !.op = "join-room:retry", !.node = n, !.room = join[n].room,
                                !.binds = join[n].attempt + 1,
                                !.other = join[n].other \/ code # "EADDRINUSE"]
          /\ UNCHANGED joined
     ELSE /\ join' = [join EXCEPT ![n] = NoJoin]
          /\ joined' = [joined EXCEPT ![n] = FALSE]
          /\ ev' = [NoEv EXCEPT !.op = "join-room", !.node = n, !.room = join[n].room,
                                !.success = FALSE, !.binds = join[n].attempt + 1,
                                !.other = join[n].other \/ code # "EADDRINUSE",
                                !.prevPort = join[n].prev]
  /\ UNCHANGED <<udpSocket, currentRoom, displayName, myPeerId, roomKey, peers,
                 messages, processedMessages, leave, histTimers, timers, net, now,
                 nextId, nextPeer, hist>>

\* lines 432-436, 448-483: the bind succeeded
JoinBindOk(n) ==
  LET bindPort == join[n].port + join[n].attempt
      socks == [udpSocket EXCEPT ![n] = bindPort]
      joinMessage == Envelope("join", nextId, myPeerId[n], displayName[n], now, NoContent)
      out == broadcastMessage(currentRoom[n], bindPort, roomKey[n], peers[n],
                              myPeerId[n], joinMessage)
  IN /\ join[n].pc = "bind"
     /\ nextId <= MaxIds
     /\ udpSocket' = socks
     /\ nextId' = nextId + 1
     /\ net' = net \cup Deliveries(socks, n, out)
     /\ Fits(net')
     /\ histTimers' = [histTimers EXCEPT ![n] = @ + 1]
     /\ join' = [join EXCEPT ![n] = NoJoin]
     /\ joined' = [joined EXCEPT ![n] = TRUE]
     /\ ev' = [NoEv EXCEPT !.op = "join-room", !.node = n, !.room = join[n].room,
                           !.success = TRUE, !.port = bindPort, !.sent = Sent(out), !.wire = out,
                           !.binds = join[n].attempt + 1, !.other = join[n].other,
                           !.prevPort = join[n].prev]
     /\ UNCHANGED <<currentRoom, displayName, myPeerId, roomKey, peers, messages,
                    processedMessages, leave, timers, now, nextPeer, hist>>

\* lines 289-301, run by the timer of line 479
requestChatHistory(n) ==
  LET historyRequestMessage ==
        Envelope("history_request", nextId, myPeerId[n], displayName[n], now, NoContent)
      throws == currentRoom[n] = Null     \* getPortForRoom(null)
      out == IF throws THEN <<>>
             ELSE sendMessage(udpSocket[n], roomKey[n], historyRequestMessage,
                              BROADCAST, getPortForRoom(currentRoom[n]))
  IN /\ histTimers[n] > 0
     /\ nextId <= MaxIds
     /\ histTimers' = [histTimers EXCEPT ![n] = @ - 1]
     /\ nextId' = nextId + 1
     /\ net' = net \cup Deliveries(udpSocket, n, out)
     /\ Fits(net')
     /\ ev' = [NoEv EXCEPT !.op = "history-timer", !.node = n, !.sent = Sent(out), !.wire = out,
                           !.error = throws]
     /\ UNCHANGED <<udpSocket, currentRoom, displayName, myPeerId, roomKey, peers,
                    messages, processedMessages, join, leave, timers, now, nextPeer, hist,
                    joined>>

----------------------------------------------------------------------------
(* send-message, lines 490-524 *)

NotInRoom(n) == ~Truthy(currentRoom[n]) \/ ~Truthy(displayName[n]) \/ myPeerId[n] = 0

SendMessage(n, structure, files) ==
  LET chatMessage == Envelope("message", nextId, myPeerId[n], displayName[n], now,
                              [kind |-> "msg", structure |-> structure, files |-> files])
      localMessage == [id |-> nextId, sender |-> displayName[n], structure |-> structure,
                       files |-> files, timestamp |-> now]
      out == broadcastMessage(currentRoom[n], udpSocket[n], roomKey[n], peers[n],
                              myPeerId[n], chatMessage)
  IN IF NotInRoom(n)
     THEN /\ ev' = [NoEv EXCEPT !.op = "send-message", !.node = n, !.success = FALSE]
          /\ UNCHANGED <<udpSocket, currentRoom, displayName, myPeerId, roomKey, peers,
                         messages, processedMessages, join, leave, histTimers, timers, net, now,
                         nextId, nextPeer, hist, joined>>
     ELSE /\ nextId <= MaxIds
          /\ Len(messages[n]) < MaxLog
          /\ nextId' = nextId + 1
          /\ messages' = [messages EXCEPT ![n] = Append(@, localMessage)]
          /\ net' = net \cup Deliveries(udpSocket, n, out)
          /\ Fits(net')
          /\ ev' = [NoEv EXCEPT !.op = "send-message", !.node = n, !.success = TRUE,
                                !.messageId = nextId, !.sent = Sent(out), !.wire = out,
                                !.env = chatMessage,
                                !.changed = TRUE]
          /\ UNCHANGED <<udpSocket, currentRoom, displayName, myPeerId, roomKey, peers,
                         processedMessages, join, leave, histTimers, timers, now, nextPeer, hist,
                         joined>>

\* send-file-chunk, lines 576-586
SendFileChunk(n, chunkData) ==
  LET chunkMessage == Envelope("file_chunk", nextId, myPeerId[n], displayName[n], now,
                               chunkData)
      out == broadcastMessage(currentRoom[n], udpSocket[n], roomKey[n], peers[n],
                              myPeerId[n], chunkMessage)
  IN /\ nextId <= MaxIds
     /\ nextId' = nextId + 1
     /\ net' = net \cup Deliveries(udpSocket, n, out)
     /\ Fits(net')
     /\ ev' = [NoEv EXCEPT !.op = "send-file-chunk", !.node = n, !.messageId = nextId,
                           !.sent = Sent(out), !.wire = out, !.env = chunkMessage]
     /\ UNCHANGED <<udpSocket, currentRoom, displayName, myPeerId, roomKey, peers,
                    messages, processedMessages, join, leave, histTimers, timers, now,
                    nextPeer, hist, joined>>

----------------------------------------------------------------------------
(* leave-room, lines 526-564 *)

\* lines 527-541: up to the 100 ms await; or, when the guard is false, line 563
LeaveRoomStart(n) ==
  LET leaveMessage == Envelope("leave", nextId, myPeerId[n], displayName[n], now, NoContent)
      out == broadcastMessage(currentRoom[n], udpSocket[n], roomKey[n], peers[n],
                              myPeerId[n], leaveMessage)
  IN /\ leave[n] = "idle"
     /\ IF Truthy(currentRoom[n]) /\ udpSocket[n] # 0
        THEN /\ nextId <= MaxIds
             /\ nextId' = nextId + 1
             /\ leave' = [leave EXCEPT ![n] = "wait"]
             /\ net' = net \cup Deliveries(udpSocket, n, out)
             /\ Fits(net')
             /\ ev' = [NoEv EXCEPT !.op = "leave-room:start", !.node = n, !.sent = Sent(out), !.wire = out]
             /\ UNCHANGED <<joined, join>>
        ELSE /\ ev' = [NoEv EXCEPT !.op = "leave-room", !.node = n, !.success = TRUE]
             /\ joined' = [joined EXCEPT ![n] = FALSE]
             /\ join' = [join EXCEPT ![n].prev = 0]
             /\ UNCHANGED <<nextId, leave, net>>
     /\ UNCHANGED <<udpSocket, currentRoom, displayName, myPeerId, roomKey, peers,
                    messages, processedMessages, histTimers, timers, now, nextPeer, hist>>

\* lines 546-563: after the delay
LeaveRoomFinish(n) ==
  /\ leave[n] = "wait"
  /\ leave' = [leave EXCEPT ![n] = "idle"]
  /\ udpSocket' = [udpSocket EXCEPT ![n] = 0]
  /\ net' = IF udpSocket[n] # 0 THEN CloseSocket(n, net) ELSE net
  /\ currentRoom' = [currentRoom EXCEPT ![n] = Null]
  /\ displayName' = [displayName EXCEPT ![n] = Null]
  /\ myPeerId' = [myPeerId EXCEPT ![n] = 0]
  /\ roomKey' = [roomKey EXCEPT ![n] = Null]
  /\ peers' = [peers EXCEPT ![n] = <<>>]
  /\ messages' = [messages EXCEPT ![n] = <<>>]
  /\ processedMessages' = [processedMessages EXCEPT ![n] = <<>>]
  /\ hist' = [hist EXCEPT ![n] = NoHist]
  /\ joined' = [joined EXCEPT ![n] = FALSE]
  /\ ev' = [NoEv EXCEPT !.op = "leave-room", !.node = n, !.success = TRUE,
                        !.changed = TRUE]
  /\ UNCHANGED <<join, histTimers, timers, now, nextId, nextPeer>>

----------------------------------------------------------------------------
(* Receive path, lines 128-205 *)

\* lines 181-205 with the handlers of lines 207-287: the state after the
\* type handler ran, as [peers, messages, out, ids, ui, error]
handleMessage(n, message, rinfo, tbl) ==
  LET base == [peers |-> tbl, messages |-> messages[n], out |-> <<>>, ids |-> 0,
               ui |-> "none", error |-> FALSE]
  IN CASE message.type = "message" ->
            IF message.content = NoContent
            THEN [base EXCEPT !.error = TRUE]        \* message.content.structure throws
            ELSE [base EXCEPT !.messages = handleChatMessage(@, message),
                              !.ui = "new-message"]
       [] message.type = "file_chunk" ->
            [base EXCEPT !.ui = "file-chunk-received"]
       [] message.type = "history_request" ->
            LET replay == handleHistoryRequest(messages[n], myPeerId[n], displayName[n],
                                               now, nextId)
                sends == [i \in DOMAIN replay |->
                            sendMessage(udpSocket[n], roomKey[n], replay[i],
                                        rinfo.address, rinfo.port)[1]]
            IN [base EXCEPT !.out = IF udpSocket[n] = 0 THEN <<>> ELSE sends,
                            !.ids = Cardinality({i \in DOMAIN replay :
                                                   replay[i].type = "file_chunk"}),
                            !.error = ReplayThrows(messages[n])]
       [] message.type = "leave" ->
            [base EXCEPT !.peers = handleLeaveMessage(tbl, message)]
       [] message.type = "join" -> handleJoinMessage(base)
       [] message.type = "ack" -> handleAckMessage(base)
       [] message.type = "status_request" -> handleStatusRequest(base)
       [] OTHER -> base                                  \* the switch has no default

\* lines 128-179: one datagram; rest is what stays in flight
handleUDPMessage(n, message, rinfo, rest) ==
  LET recorded == message.messageId # 0
      processed == RecordProcessed(message, processedMessages[n])
      opened == OpenEnvelope(message, roomKey[n])
      tbl == RefreshPeer(peers[n], opened.message, myPeerId[n], rinfo, now)
      done == handleMessage(n, opened.message, rinfo, tbl)
      seen == [NoEv EXCEPT !.op = "recv", !.node = n, !.messageId = message.messageId,
                           !.own = (message.peerId = myPeerId[n]),
                           !.env = message, !.from = rinfo]
  IN /\ udpSocket[n] # 0
     /\ CASE IsOwnMessage(message, myPeerId[n]) ->
               /\ ev' = seen
               /\ net' = rest
               /\ UNCHANGED <<peers, messages, processedMessages, nextId, hist>>
          [] ~IsOwnMessage(message, myPeerId[n])
             /\ IsDuplicate(message, processedMessages[n]) ->
               /\ ev' = seen
               /\ net' = rest
               /\ UNCHANGED <<peers, messages, processedMessages, nextId, hist>>
          [] ~IsOwnMessage(message, myPeerId[n])
             /\ ~IsDuplicate(message, processedMessages[n]) /\ ~opened.ok ->
               /\ processedMessages' = [processedMessages EXCEPT ![n] = processed]
               /\ hist' = [hist EXCEPT ![n] = HistRecord(@, recorded)]
               /\ ev' = [seen EXCEPT !.changed = recorded]
               /\ net' = rest
               /\ UNCHANGED <<peers, messages, nextId>>
          [] OTHER ->
               /\ nextId + done.ids <= MaxIds + 1
               /\ Len(done.messages) <= MaxLog
               /\ processedMessages' = [processedMessages EXCEPT ![n] = processed]
               /\ peers' = [peers EXCEPT ![n] = done.peers]
               /\ messages' = [messages EXCEPT ![n] = done.messages]
               /\ nextId' = nextId + done.ids
               /\ net' = rest \cup Deliveries(udpSocket, n, done.out)
               /\ Fits(net')
               /\ hist' = [hist EXCEPT ![n] = HistDispatch(@, message.messageId, recorded)]
               /\ ev' = [seen EXCEPT !.dispatched = opened.message.type,
                                     !.sent = Sent(done.out), !.wire = done.out,
                                     !.ui = done.ui,
                                     !.error = done.error,
                                     !.changed = (<<processed, done.peers, done.messages>>
                                                  # <<processedMessages[n], peers[n], messages[n]>>)]
     /\ UNCHANGED <<udpSocket, currentRoom, displayName, myPeerId, roomKey, join,
                    leave, histTimers, timers, now, nextPeer, joined>>

\* a datagram in flight arrives at the socket of n
Deliver(n) ==
  \E d \in net : d.to = n /\ handleUDPMessage(n, d.env, d.from, net \ {d})

----------------------------------------------------------------------------
(* Environment *)

FOREIGN == 77                 \* peer id of a host outside Nodes
Outside == [address |-> "X", port |-> 40000]
Eve == <<"E","v","e">>

\* envelopes a host on the LAN may put on the wire towards n: a `message` is
\* sealed under the room key, sealed under another key, or has no payload
Payloads(n, type) ==
  IF type = "message"
  THEN {NoSeal,
        encrypt([kind |-> "msg", structure |-> <<"hi">>, files |-> <<>>], roomKey[n]),
        encrypt([kind |-> "msg", structure |-> <<"hi">>, files |-> <<>>], deriveKey(<<"O">>))}
  ELSE {NoSeal}

Wire(n, types, ids, pids) ==
  {[Envelope(q[1], q[2], q[3], Eve, now, NoContent) EXCEPT !.encrypted = q[4]] :
     q \in {w \in types \X ids \X pids \X UNION {Payloads(n, t) : t \in types} :
              w[4] \in Payloads(n, w[1])}}

Inject(n, types, ids, pids) ==
  \E message \in Wire(n, types, ids, pids) : handleUDPMessage(n, message, Outside, net)

----------------------------------------------------------------------------
(* Session life cycle of one node: the boundary API called in any order,    *)
(* binds that fail or succeed, and a peer announcing itself.                *)

RawRooms == { <<" ","d","e","m","o"," ">>, <<"b","a","d","!">>, <<" "," ">> }
RawNames == { <<"a","l"," ","b">> }
Structures == { <<"hello">> }
FileLists == { <<>> }
BindCodes == {"EADDRINUSE", "EACCES"}    \* EACCES stands for every other failure

Next ==
  \/ \E r \in RawRooms : JoinRejectedByForm("A", r)
  \/ \E r \in RawRooms, u \in RawNames : JoinRoomStart("A", r, u)
  \/ \E code \in BindCodes : JoinBindFailed("A", code)
  \/ JoinBindOk("A")
  \/ requestChatHistory("A")
  \/ \E st \in Structures, fl \in FileLists : SendMessage("A", st, fl)
  \/ LeaveRoomStart("A")
  \/ LeaveRoomFinish("A")
  \/ Deliver("A")
  \/ Inject("A", {"join"}, {91}, {FOREIGN, myPeerId["A"]})

Spec == Init /\ [][Next]_vars

----------------------------------------------------------------------------
(* Properties of the session life cycle, checked under Spec *)

Idle(n) ==
  /\ udpSocket[n] = 0
  /\ currentRoom[n] = Null /\ displayName[n] = Null /\ myPeerId[n] = 0
  /\ roomKey[n] = Null
  /\ peers[n] = <<>> /\ messages[n] = <<>> /\ processedMessages[n] = <<>>

JoinOps == {"join-room:start", "join-room:retry", "join-room"}

\* C2: a datagram whose peerId is the node's current peer id is discarded
\* before any other processing: no handler runs, nothing is sent or shown, the
\* peer table, the dedup cache and the log stay as they were; and the peer
\* table never holds the node's own current peer id.
C2_OwnDatagramDiscarded ==
  /\ (ev.op = "recv" /\ ev.own) =>
       (ev.dispatched = "none" /\ ~ev.changed /\ ev.sent = <<>> /\ ev.ui = "none")
  /\ \A n \in Nodes : myPeerId[n] # 0 => myPeerId[n] \notin PeerIds(peers[n])

\* a datagram carrying the node's own peer id arrived while the node knew a peer
C2_Witness ==
  ev.op = "recv" /\ ev.own /\ myPeerId[ev.node] # 0 /\ peers[ev.node] # <<>>

\* C3: send-message called while the node is not Joined returns
\* {success:false}, appends nothing to the log and sends no datagram.
C3_SendRejectedWhenNotJoined ==
  (ev.op = "send-message" /\ ~joined[ev.node]) =>
     (~ev.success /\ ~ev.changed /\ ev.sent = <<>>)

\* C4: right after a successful join-room the peer table and the dedup cache
\* are empty and the log holds nothing from before that join.
C4_JoinClearsSession ==
  (ev.op = "join-room" /\ ev.success) =>
     /\ peers[ev.node] = <<>>
     /\ processedMessages[ev.node] = <<>>
     /\ hist[ev.node].carried = 0

\* C5: when leave-room returns the node is Idle; when it was Joined, a leave
\* envelope went to the broadcast address before the socket was closed.
C5_LeaveEndsIdle ==
  /\ ev.op = "leave-room" => Idle(ev.node)
  /\ ev.op = "leave-room:start" =>
       \E i \in DOMAIN ev.sent : ev.sent[i].type = "leave" /\ ev.sent[i].address = BROADCAST

\* C6: a failed join-room leaves the node Idle, so that between handlers the
\* socket is open exactly when room, peer id and key are set.
C6_FailedJoinIsIdle ==
  /\ (ev.op = "join-room" /\ ~ev.success) =>
       /\ udpSocket[ev.node] = 0
       /\ currentRoom[ev.node] = Null /\ myPeerId[ev.node] = 0 /\ roomKey[ev.node] = Null
  /\ \A n \in Nodes :
       (join[n].pc = "idle" /\ leave[n] = "idle") =>
         ((udpSocket[n] # 0) <=>
            (currentRoom[n] # Null /\ myPeerId[n] # 0 /\ roomKey[n] # Null))

\* C7: join-room binds port(room)+k for k = 0..4 in order, goes on to the next
\* port only after AddressInUse, reports the first port that bound, fails when
\* all five binds failed and never binds more than five times.
C7_BindFallback ==
  /\ ev.op \in JoinOps => ev.binds <= MAX_BIND_ATTEMPTS
  /\ ev.op = "join-room:retry" => ~ev.other
  /\ (ev.op = "join-room" /\ ev.success) =>
       /\ ev.port = getPortForRoom(ev.room) + ev.binds - 1
       /\ ~ev.other
  /\ (ev.op = "join-room" /\ ~ev.success /\ ~ev.other) => ev.binds = MAX_BIND_ATTEMPTS

\* C8: a bind failure other than AddressInUse ends the join attempt: join-room
\* returns {success:false} and binds no further port.
C8_OtherBindErrorFatal ==
  ev.other => (ev.op = "join-room" /\ ~ev.success)

\* C9: join-room with a room name that is empty or breaks ^[A-Za-z0-9_-]+$
\* after normalization is rejected and changes nothing: no identity is set, no
\* bind is attempted and the call does not succeed.
C9_InvalidRoomRejected ==
  /\ \A n \in Nodes : join[n].pc = "bind" => ValidRoomName(join[n].room)
  /\ \A n \in Nodes : currentRoom[n] # Null => ValidRoomName(currentRoom[n])
  /\ (ev.op \in JoinOps /\ ev.success /\ ev.op = "join-room") => ValidRoomName(ev.room)

\* C15: a join-room call for the room the node is joined to, with no
\* leave-room since that join, either succeeds with the port the node was
\* bound to or fails after all five binds failed; the node then has at most
\* one open socket (it has one socket slot, open or null).
C15_IdempotentJoin ==
  (ev.op = "join-room" /\ ev.prevPort # 0) =>
     \/ ev.success /\ ev.port = ev.prevPort /\ udpSocket[ev.node] = ev.port
     \/ ~ev.success /\ ev.binds = MAX_BIND_ATTEMPTS /\ udpSocket[ev.node] = 0

\* C16: no boundary-API handler runs while a join-room or a leave-room call
\* of the node is between its first and its last state change: send-message
\* never runs while a join-room awaits a bind or a leave-room sits in its
\* delay, and join-room and leave-room never overlap.
C16_MutationsSerialized ==
  /\ ev.op = "send-message" => (join[ev.node].pc = "idle" /\ leave[ev.node] = "idle")
  /\ ev.op \in {"leave-room:start", "leave-room"} => join[ev.node].pc = "idle"
  /\ ev.op \in JoinOps => leave[ev.node] = "idle"

----------------------------------------------------------------------------
(* The dedup cache under a long stream of datagrams.  The specification     *)
(* starts where node A has joined Demo on its base port, its history timer  *)
(* has fired, and a peer has sent it DEDUP_MAX - 1 or DEDUP_MAX `ack`       *)
(* envelopes with ids StreamBase + 1, StreamBase + 2, ...; the peer then    *)
(* sends fresh ids and replays old ones.                                    *)

StreamBase == 100
Demo == FormRoom(<<" ","d","e","m","o"," ">>)
Alb == FormName(<<"a","l"," ","b">>)

PeerEnvelope(n, type, id) ==
  [Envelope(type, id, FOREIGN, Eve, now, NoContent) EXCEPT
     !.encrypted = IF type = "message"
                   THEN encrypt([kind |-> "msg", structure |-> <<"hi">>, files |-> <<>>],
                                roomKey[n])
                   ELSE NoSeal]

InitDedup ==
  \E size \in {DEDUP_MAX - 1, DEDUP_MAX} :
    /\ udpSocket = [n \in Nodes |-> IF n = "A" THEN getPortForRoom(Demo) ELSE 0]
    /\ currentRoom = [n \in Nodes |-> IF n = "A" THEN Demo ELSE Null]
    /\ displayName = [n \in Nodes |-> IF n = "A" THEN Alb ELSE Null]
    /\ myPeerId = [n \in Nodes |-> IF n = "A" THEN 1 ELSE 0]
    /\ roomKey = [n \in Nodes |-> IF n = "A" THEN deriveKey(Demo) ELSE Null]
    /\ peers = [n \in Nodes |->
                  IF n = "A"
                  THEN << [peerId |-> FOREIGN, address |-> Outside.address,
                           port |-> Outside.port, lastSeen |-> 0, displayName |-> Eve,
                           hasTimedOut |-> FALSE] >>
                  ELSE <<>>]
    /\ messages = [n \in Nodes |-> <<>>]
    /\ processedMessages = [n \in Nodes |->
                              IF n = "A" THEN [i \in 1..size |-> StreamBase + i] ELSE <<>>]
    /\ join = [n \in Nodes |-> NoJoin]
    /\ leave = [n \in Nodes |-> "idle"]
    /\ histTimers = [n \in Nodes |-> 0]
    /\ timers = [n \in Nodes |-> NoTimers]
    /\ net = {}
    /\ now = 0
    /\ nextId = 3
    /\ nextPeer = 2
    /\ ev = [NoEv EXCEPT !.op = "recv", !.messageId = StreamBase + size,
                         !.dispatched = "ack"]
    /\ hist = [n \in Nodes |->
                 IF n = "A"
                 THEN [count |-> size, carried |-> 0, again |-> {},
                       at |-> [m \in {StreamBase + i : i \in 1..size} |-> m - StreamBase]]
                 ELSE NoHist]
    /\ joined = [n \in Nodes |-> n = "A"]

StreamTypes == {"ack", "message"}

\* the peer sends an envelope with an id it has not used before
StreamFresh(n) ==
  /\ hist[n].count < DEDUP_MAX + MaxStream
  /\ \E type \in StreamTypes :
       handleUDPMessage(n, PeerEnvelope(n, type, StreamBase + hist[n].count + 1),
                        Outside, net)

\* ids the peer sends again: the oldest, the two around the pruning boundary
\* and the one it sent last
Probes(n) ==
  {StreamBase + 1, StreamBase + DEDUP_PRUNE, StreamBase + DEDUP_PRUNE + 1,
   processedMessages[n][Len(processedMessages[n])]}

StreamReplay(n) ==
  \E id \in Probes(n), type \in StreamTypes :
    handleUDPMessage(n, PeerEnvelope(n, type, id), Outside, net)

NextDedup == StreamFresh("A") \/ StreamReplay("A")

SpecDedup == InitDedup /\ [][NextDedup]_vars

C14_CacheBounded ==
  \A n \in Nodes : Len(processedMessages[n]) <= DEDUP_MAX

\* the id that took the cache past DEDUP_MAX was recorded and the clean-up
\* ran: the newest DEDUP_MAX + 1 - DEDUP_PRUNE ids are left
C14_Witness ==
  /\ ev.op = "recv" /\ ev.changed
  /\ hist[ev.node].count = DEDUP_MAX + 1
  /\ Len(processedMessages[ev.node]) = DEDUP_MAX + 1 - DEDUP_PRUNE

----------------------------------------------------------------------------
(* Late joiner: node A joins Demo and sends, then node B joins Demo.  Both   *)
(* stay joined, the hosts have different addresses, and every datagram that *)
(* reaches a bound socket is delivered.                                     *)

Tick ==
  /\ now < MaxClock
  /\ now' = now + 1
  /\ UNCHANGED <<udpSocket, currentRoom, displayName, myPeerId, roomKey, peers,
                 messages, processedMessages, join, leave, histTimers, timers, net,
                 nextId, nextPeer, ev, hist, joined>>

DemoRaw == <<" ","d","e","m","o"," ">>

NextSync ==
  \/ nextPeer = 1 /\ JoinRoomStart("A", DemoRaw, <<"a","l"," ","b">>)
  \/ JoinBindFailed("A", "EADDRINUSE")
  \/ JoinBindOk("A")
  \/ nextPeer = 2 /\ udpSocket["A"] # 0
       /\ \E st \in Structures, fl \in FileLists : SendMessage("A", st, fl)
  \/ nextPeer = 2 /\ udpSocket["A"] # 0 /\ JoinRoomStart("B", DemoRaw, <<>>)
  \/ JoinBindFailed("B", "EADDRINUSE")
  \/ JoinBindOk("B")
  \/ \E n \in Nodes : requestChatHistory(n)
  \/ \E n \in Nodes : Deliver(n)
  \/ Tick

SpecSync == Init /\ [][NextSync]_vars

\* nothing is in flight, no handler is suspended and no timer is armed
Quiescent ==
  /\ net = {}
  /\ \A n \in Nodes : join[n].pc = "idle" /\ leave[n] = "idle" /\ histTimers[n] = 0

SameRecord(a, b) ==
  a.id = b.id /\ a.sender = b.sender /\ a.timestamp = b.timestamp
  /\ a.structure = b.structure

\* C10: once B has joined the room in which A holds a message, and everything
\* B's join set off has run its course, B's log holds a record with that
\* message's id, sender name, timestamp and structure.
C10_LateJoinerGetsHistory ==
  (Quiescent /\ udpSocket["A"] # 0 /\ udpSocket["B"] # 0) =>
     \A i \in DOMAIN messages["A"] :
        \E j \in DOMAIN messages["B"] : SameRecord(messages["A"][i], messages["B"][j])

----------------------------------------------------------------------------
(* Receive path: node A joins Demo, sends messages with and without files,  *)
(* and a host on the LAN sends it every kind of datagram: well-formed       *)
(* envelopes, envelopes whose payload does not open or is not sealed,       *)
(* envelopes with a field missing, and bytes that are not JSON.             *)

Missing == 0 - 1                  \* peerId or timestamp absent from the JSON
Undefined == <<"undefined">>      \* type or displayName absent from the JSON
NotJson == [kind |-> "garbage"]   \* a buffer JSON.parse rejects

\* lines 129-130, 176-178: JSON.parse throws, the catch logs and returns
ParseFailure(n, rinfo) ==
  /\ udpSocket[n] # 0
  /\ ev' = [NoEv EXCEPT !.op = "recv", !.node = n, !.env = NotJson, !.from = rinfo,
                        !.error = TRUE]
  /\ UNCHANGED <<udpSocket, currentRoom, displayName, myPeerId, roomKey, peers,
                 messages, processedMessages, join, leave, histTimers, timers, net,
                 now, nextId, nextPeer, hist, joined>>

Photo == [id |-> "f1", name |-> "a.png", size |-> 4, data |-> Text("f1", 0, 4)]

\* send-message without a files property and with one attached file (the
\* empty list is what Spec and SpecSync send)
RecvFileLists == {NoFiles, <<Photo>>}
\* payloads that do not open under the key of n: sealed under another room's
\* key, and sealed under the right key with the authTag corrupted
BrokenSeals(n) ==
  LET hi == [kind |-> "msg", structure |-> <<"hi">>, files |-> <<>>]
  IN {encrypt(hi, deriveKey(<<"O">>)), [encrypt(hi, roomKey[n]) EXCEPT !.tagOk = FALSE]}

\* a well-formed envelope with one required field taken out
FieldDropped(message) ==
  {[message EXCEPT !.type = "undefined"], [message EXCEPT !.messageId = 0],
   [message EXCEPT !.peerId = Missing], [message EXCEPT !.displayName = Undefined],
   [message EXCEPT !.timestamp = Missing]}

\* a `message` whose content travels in the clear: no encrypted property
PlainMessage(id) ==
  Envelope("message", id, FOREIGN, Eve, now,
           [kind |-> "msg", structure |-> <<"hi">>, files |-> <<>>])

WireRecv(n) ==
  {PeerEnvelope(n, "join", 91), PeerEnvelope(n, "message", 91),
   PeerEnvelope(n, "history_request", 92), PlainMessage(91)}
  \cup {[PeerEnvelope(n, "message", 91) EXCEPT !.encrypted = p] :
          p \in BrokenSeals(n) \cup {NoSeal}}
  \cup FieldDropped(PeerEnvelope(n, "join", 91))

InjectRecv(n) ==
  \E message \in WireRecv(n) : handleUDPMessage(n, message, Outside, net)

NextRecv ==
  \/ nextPeer = 1 /\ \E u \in RawNames : JoinRoomStart("A", DemoRaw, u)
  \/ JoinBindOk("A")
  \/ requestChatHistory("A")
  \/ udpSocket["A"] # 0
       /\ \E st \in Structures, fl \in RecvFileLists : SendMessage("A", st, fl)
  \/ Deliver("A")
  \/ InjectRecv("A")
  \/ ParseFailure("A", Outside)

SpecRecv == Init /\ [][NextRecv]_vars

\* the content a datagram carries, as its receiver in the room reads it
Carried(d, key) ==
  IF d.env.encrypted # NoSeal THEN decrypt(d.env.encrypted, key) ELSE d.env.content

\* C11: when a history_request is dispatched, the node sends exactly one
\* `message` envelope per log entry, in log order, with the entry's message id,
\* sender name, timestamp and structure, and everything it sends goes to the
\* requester's source address and port.
C11_ReplaysWholeLog ==
  (ev.op = "recv" /\ ev.dispatched = "history_request") =>
     LET log == messages[ev.node]
         replayed == SelectSeq(ev.wire, LAMBDA d : d.env.type = "message")
     IN /\ Len(replayed) = Len(log)
        /\ \A i \in DOMAIN replayed :
             /\ replayed[i].env.messageId = log[i].id
             /\ replayed[i].env.displayName = log[i].sender
             /\ replayed[i].env.timestamp = log[i].timestamp
             /\ Carried(replayed[i], roomKey[ev.node]).structure = log[i].structure
        /\ \A i \in DOMAIN ev.wire :
             ev.wire[i].address = ev.from.address /\ ev.wire[i].port = ev.from.port

\* the payload is there, the node has a key and decrypt() returns null
SealBroken(message, key) ==
  /\ message # NotJson
  /\ message.encrypted # NoSeal /\ key # Null
  /\ decrypt(message.encrypted, key) = NoContent

\* C12: a datagram whose payload does not open under the room key (wrong
\* key, corrupted authTag) is dropped: the log and the peer table stay as they
\* were, no type handler runs, nothing is sent and no event reaches the UI.
C12_UnopenableDropped ==
  [][ (ev'.op = "recv" /\ SealBroken(ev'.env, roomKey[ev'.node])) =>
        /\ messages' = messages /\ peers' = peers
        /\ ev'.dispatched = "none" /\ ev'.ui = "none" /\ ev'.wire = <<>> ]_vars

\* a payload that does not open arrived from a peer, got past the self and
\* duplicate tests, while the node held a log and knew the peer
C12_Witness ==
  /\ ev.op = "recv" /\ SealBroken(ev.env, roomKey[ev.node])
  /\ ~ev.own /\ ev.changed
  /\ messages[ev.node] # <<>> /\ peers[ev.node] # <<>>

\* the envelope lacks one of type, messageId, peerId, displayName, timestamp
LacksRequiredField(message) ==
  \/ message.type \notin MESSAGE_TYPES
  \/ message.messageId = 0
  \/ message.peerId = Missing
  \/ message.displayName = Undefined
  \/ message.timestamp = Missing

Malformed(message) ==
  \/ message = NotJson
  \/ LacksRequiredField(message)
  \/ message.type = "message" /\ message.content = NoContent /\ message.encrypted = NoSeal

\* C17: a datagram that is not JSON, or lacks a required envelope field, or
\* is a `message` without content, is dropped silently: the peer table, the
\* dedup cache and the log stay as they were and nothing reaches the UI.
C17_MalformedDropped ==
  [][ (ev'.op = "recv" /\ Malformed(ev'.env)) =>
        /\ peers' = peers /\ processedMessages' = processedMessages
        /\ messages' = messages
        /\ ev'.ui = "none" ]_vars

\* C18: send-message logs the message with the files it was given, data
\* included, and no datagram it sends carries the data of a file.
C18_BroadcastMetadataOnly ==
  (ev.op = "send-message" /\ ev.success) =>
     LET log == messages[ev.node]
     IN /\ log # <<>>
        /\ log[Len(log)].id = ev.messageId
        /\ log[Len(log)].files = ev.env.content.files
        /\ \A i \in DOMAIN ev.wire :
             LET files == Carried(ev.wire[i], roomKey[ev.node]).files
             IN files # NoFiles => \A j \in DOMAIN files : files[j].data = NoData

----------------------------------------------------------------------------
(* Seal and open, checked under SpecSync *)

\* the contents sendMessage seals and the keys of the rooms the nodes join
SealedContents ==
  {[kind |-> "msg", structure |-> st, files |-> fl] :
     st \in Structures \cup {<<>>, Undefined}, fl \in RecvFileLists}
  \cup {[kind |-> "chunk", fileId |-> "f1", chunkIndex |-> 0, chunkData |-> Photo.data]}

RoomKeys == {deriveKey(FormRoom(r)) : r \in {r \in RawRooms : FormRoom(r) # <<>>}}

----------------------------------------------------------------------------
(* The port map: node A joins a room whose name is typed from a small      *)
(* alphabet, node B then types a name of the same room; every bind succeeds *)
(* at once.                                                                 *)

PortAlphabet == {"a", "B", "7", " "}

RoomInputs == UNION {[1..m -> PortAlphabet] : m \in 0..MaxLen}

NextPort ==
  \/ \E n \in Nodes, r \in RoomInputs : JoinRejectedByForm(n, r)
  \/ nextPeer = 1 /\ \E r \in RoomInputs : JoinRoomStart("A", r, <<>>)
  \/ nextPeer = 2 /\ udpSocket["A"] # 0
       /\ \E r \in RoomInputs : FormRoom(r) = currentRoom["A"] /\ JoinRoomStart("B", r, <<>>)
  \/ \E n \in Nodes : JoinBindOk(n)
  \/ \E n \in Nodes : requestChatHistory(n)
  \/ \E n \in Nodes : Deliver(n)

SpecPort == Init /\ [][NextPort]_vars

\* C20: the port of a room is 12000 plus the 16-bit hash of its name modulo
\* 1000, it lies in 12000..12999, and every call on every node gives the same
\* port for the same name: the port join-room binds first, the port the node
\* is bound to, and the port its broadcasts go to.
C20_PortOfRoom ==
  /\ \A n \in Nodes :
       join[n].pc = "bind" =>
         /\ join[n].port = 12000 + (Digest16(join[n].room) % 1000)
         /\ join[n].port \in 12000..12999
  /\ \A n \in Nodes :
       udpSocket[n] # 0 => udpSocket[n] = 12000 + (Digest16(currentRoom[n]) % 1000)
  /\ \A n \in Nodes, m \in Nodes :
       (udpSocket[n] # 0 /\ udpSocket[m] # 0 /\ currentRoom[n] = currentRoom[m]) =>
          udpSocket[n] = udpSocket[m]
  /\ \A i \in DOMAIN ev.sent :
       ev.sent[i].address = BROADCAST =>
         ev.sent[i].port = 12000 + (Digest16(currentRoom[ev.node]) % 1000)

\* two nodes are bound in the same room, and a broadcast went to its port
C20_Witness ==
  /\ udpSocket["A"] # 0 /\ udpSocket["B"] # 0
  /\ currentRoom["A"] = currentRoom["B"]
  /\ ev.op = "history-timer" /\ ev.sent # <<>>

----------------------------------------------------------------------------
(* The peer sweeper, lines 353-378.  Time is Date.now() in milliseconds     *)
(* since the process started; it moves from one timer deadline to the next, *)
(* and a timer that is due runs before time moves on.  A peer sends node A  *)
(* datagrams with fresh message ids at any of these instants, and repeats   *)
(* the last one.                                                            *)

\* lines 354-375, run by the interval of line 378
cleanupPeers(n) ==
  LET toRemove == {i \in DOMAIN peers[n] :
                     /\ now - peers[n][i].lastSeen > PEER_TIMEOUT
                     /\ ~peers[n][i].hasTimedOut}
  IN /\ now > 0 /\ now % SWEEP_INTERVAL = 0 /\ timers[n].sweptAt < now
     /\ peers' = [peers EXCEPT ![n] =
                    [i \in DOMAIN peers[n] |->
                       IF i \in toRemove THEN [peers[n][i] EXCEPT !.hasTimedOut = TRUE]
                       ELSE peers[n][i]]]
     /\ timers' = [timers EXCEPT ![n] =
                     [sweptAt |-> now,
                      removals |-> timers[n].removals \cup
                                     {[peerId |-> peers[n][i].peerId, at |-> now + REMOVE_DELAY] :
                                        i \in toRemove}]]
     /\ ev' = [NoEv EXCEPT !.op = "sweep", !.node = n, !.changed = (toRemove # {})]
     /\ UNCHANGED <<udpSocket, currentRoom, displayName, myPeerId, roomKey, messages,
                    processedMessages, join, leave, histTimers, net, now, nextId,
                    nextPeer, hist, joined>>

\* lines 370-372: the removal timer armed by cleanupPeers fires
RemovePeer(n) ==
  \E r \in timers[n].removals :
    /\ r.at <= now
    /\ peers' = [peers EXCEPT ![n] = PeerDelete(peers[n], r.peerId)]
    /\ timers' = [timers EXCEPT ![n].removals = @ \ {r}]
    /\ ev' = [NoEv EXCEPT !.op = "peer-removed", !.node = n,
                          !.changed = (r.peerId \in PeerIds(peers[n]))]
    /\ UNCHANGED <<udpSocket, currentRoom, displayName, myPeerId, roomKey, messages,
                   processedMessages, join, leave, histTimers, net, now, nextId,
                   nextPeer, hist, joined>>

\* what the timers of the sweeper still have to run at this instant
TimerDue(n) ==
  \/ now > 0 /\ now % SWEEP_INTERVAL = 0 /\ timers[n].sweptAt < now
  \/ \E r \in timers[n].removals : r.at <= now

Deadlines ==
  {(now \div SWEEP_INTERVAL + 1) * SWEEP_INTERVAL}
  \cup UNION {{r.at : r \in timers[n].removals} : n \in Nodes}

\* time passes up to the next deadline
Pass ==
  LET next == CHOOSE t \in Deadlines : \A u \in Deadlines : t <= u
  IN /\ \A n \in Nodes : ~TimerDue(n)
     /\ next <= MaxSweeps * SWEEP_INTERVAL
     /\ now' = next
     /\ UNCHANGED <<udpSocket, currentRoom, displayName, myPeerId, roomKey, peers,
                    messages, processedMessages, join, leave, histTimers, timers, net,
                    nextId, nextPeer, ev, hist, joined>>

\* the peer sends a datagram with an id it has not used before
PeerDatagram(n) ==
  /\ hist[n].count < MaxStream
  /\ handleUDPMessage(n, PeerEnvelope(n, "ack", StreamBase + hist[n].count + 1),
                      Outside, net)

\* the peer sends the datagram it sent last once more
PeerReplay(n) ==
  /\ hist[n].count > 0
  /\ handleUDPMessage(n, PeerEnvelope(n, "ack", StreamBase + hist[n].count),
                      Outside, net)

NextSweep ==
  \/ nextPeer = 1 /\ \E u \in RawNames : JoinRoomStart("A", DemoRaw, u)
  \/ JoinBindOk("A")
  \/ requestChatHistory("A")
  \/ Deliver("A")
  \/ PeerDatagram("A")
  \/ PeerReplay("A")
  \/ \E n \in Nodes : cleanupPeers(n)
  \/ \E n \in Nodes : RemovePeer(n)
  \/ Pass

SpecSweep == Init /\ [][NextSweep]_vars

\* how long ago the table's record of a peer was refreshed
Age(rec) == now - rec.lastSeen

\* C13: a peer from which nothing was processed for longer than the peer
\* timeout is gone from the peer table once the sweep that follows (at most
\* one sweep interval later) and its removal delay have run; and the sweeper
\* never removes a peer whose last-seen is at most the peer timeout old.
C13_PeerTimeout ==
  /\ [](\A n \in Nodes : \A i \in DOMAIN peers[n] :
           Age(peers[n][i]) <= PEER_TIMEOUT + SWEEP_INTERVAL + REMOVE_DELAY)
  /\ [][ ev'.op = "peer-removed" =>
           \A i \in DOMAIN peers[ev'.node] :
              peers[ev'.node][i].peerId \notin PeerIds(peers'[ev'.node]) =>
                 Age(peers[ev'.node][i]) > PEER_TIMEOUT ]_vars

\* the handler that ran in this step received a datagram carrying a peer id
\* that is not the node's own
FromOtherPeer(e, n) ==
  e.op = "recv" /\ e.node = n /\ e.env.peerId > 0 /\ e.env.peerId # myPeerId[n]

\* C22: every datagram a node receives from another peer id leaves that peer
\* in the peer table with last-seen equal to the time of receipt and the
\* datagram's source address and port, also when its message id is already
\* in the dedup cache.
C22_EveryDatagramRefreshes ==
  [][\A n \in Nodes :
       (FromOtherPeer(ev', n) /\ now' = now) =>
          \E i \in DOMAIN peers'[n] :
             /\ peers'[n][i].peerId = ev'.env.peerId
             /\ peers'[n][i].lastSeen = now
             /\ peers'[n][i].address = ev'.from.address
             /\ peers'[n][i].port = ev'.from.port]_vars

----------------------------------------------------------------------------
(* Two hosts on the LAN: node A joins Demo and sends, and two hosts with    *)
(* peer ids and names of their own send it envelopes of every type, each    *)
(* with a fresh message id.                                                 *)

OTHER_PEER == 78
Beyond == [address |-> "Y", port |-> 40001]

Bob == <<"B","o","b">>

\* the hosts, each with the display name it joined under
LanHosts == {[peerId |-> FOREIGN, rinfo |-> Outside, name |-> Eve],
             [peerId |-> OTHER_PEER, rinfo |-> Beyond, name |-> Bob]}

\* a `message` of a host announces one file by its metadata, as the replay of
\* another node does (line 249)
HostContent == [kind |-> "msg", structure |-> <<"hi">>, files |-> FileMeta(<<Photo>>)]

HostEnvelope(n, host, type, id) ==
  [Envelope(type, id, host.peerId, host.name, now, NoContent) EXCEPT
     !.encrypted = IF type = "message" THEN encrypt(HostContent, roomKey[n]) ELSE NoSeal]

HostDatagram(n) ==
  /\ hist[n].count < MaxGrams
  /\ \E host \in LanHosts, type \in MESSAGE_TYPES :
       handleUDPMessage(n, HostEnvelope(n, host, type, StreamBase + hist[n].count + 1),
                        host.rinfo, net)

\* a host that runs this program replays a message the other host wrote, as
\* its handleHistoryRequest does (lines 241-252)
HostReplay(n) ==
  /\ hist[n].count < MaxGrams
  /\ \E host \in LanHosts, author \in LanHosts :
       /\ author # host
       /\ handleUDPMessage(n,
            OnWire(historyMessage([id |-> StreamBase + hist[n].count + 1,
                                   sender |-> author.name, timestamp |-> now,
                                   structure |-> <<"hi">>, files |-> <<>>],
                                  host.peerId),
                   roomKey[n]),
            host.rinfo, net)

NextPeers ==
  \/ nextPeer = 1 /\ \E u \in RawNames : JoinRoomStart("A", DemoRaw, u)
  \/ JoinBindOk("A")
  \/ requestChatHistory("A")
  \/ udpSocket["A"] # 0 /\ \E st \in Structures, fl \in FileLists : SendMessage("A", st, fl)
  \/ Deliver("A")
  \/ HostDatagram("A")

SpecPeers == Init /\ [][NextPeers]_vars

\* the records of a peer table, without the one of peer p
OtherRecords(tbl, p) == {tbl[i] : i \in {j \in DOMAIN tbl : tbl[j].peerId # p}}

\* C23: once a node has dispatched a `leave` envelope from peer p, p is not
\* in its peer table, and the records of all other peers are what they were
\* before the datagram.
C23_LeaveRemovesSender ==
  [][\A n \in Nodes :
       (ev'.op = "recv" /\ ev'.node = n /\ ev'.dispatched = "leave") =>
          /\ ev'.env.peerId \notin PeerIds(peers'[n])
          /\ OtherRecords(peers'[n], ev'.env.peerId) = OtherRecords(peers[n], ev'.env.peerId)
          /\ Len(peers'[n]) = Cardinality(OtherRecords(peers[n], ev'.env.peerId))]_vars

\* a leave was dispatched after an earlier datagram had put its sender in the
\* table, and the other host is still there
C23_Witness ==
  /\ ev.op = "recv" /\ ev.dispatched = "leave" /\ ev.env.peerId = FOREIGN
  /\ hist[ev.node].count = MaxGrams
  /\ PeerIds(peers[ev.node]) = {OTHER_PEER}
  /\ peers[ev.node][1].address = Beyond.address

\* types whose handlers are reserved or only log
NoOpTypes == {"ack", "status_request", "join"}

\* C30: dispatching an `ack`, `status_request` or `join` envelope leaves the
\* message log as it was, sends no datagram and no UI event, and changes no
\* state but the dedup cache and the peer record of the sender.
C30_ReservedTypesNoOp ==
  [][\A n \in Nodes :
       (ev'.op = "recv" /\ ev'.node = n /\ ev'.dispatched \in NoOpTypes) =>
          /\ messages' = messages
          /\ ev'.wire = <<>> /\ ev'.sent = <<>> /\ net' \subseteq net
          /\ ev'.ui = "none" /\ ~ev'.error
          /\ OtherRecords(peers'[n], ev'.env.peerId) = OtherRecords(peers[n], ev'.env.peerId)
          /\ \A m \in Nodes \ {n} : peers'[m] = peers[m] /\ processedMessages'[m] = processedMessages[m]
          /\ UNCHANGED <<udpSocket, currentRoom, displayName, myPeerId, roomKey, join,
                         leave, histTimers, timers, now, nextId, nextPeer, joined>>]_vars

\* a join from a second host was dispatched while the log held a message and
\* the table held the first host
C30_Witness ==
  /\ ev.op = "recv" /\ ev.dispatched = "join" /\ ev.env.peerId = OTHER_PEER
  /\ messages[ev.node] # <<>>
  /\ PeerIds(peers[ev.node]) = {FOREIGN, OTHER_PEER}
  /\ ev.messageId \in Range(processedMessages[ev.node])

----------------------------------------------------------------------------
(* Fan-out: node A joins Demo on its base port or, when that port is in    *)
(* use, on the next one; two hosts announce themselves while A does not     *)
(* know them; A sends messages and file chunks, leaves and joins again.     *)

Chunks == {[kind |-> "chunk", fileId |-> "f1", chunkIndex |-> 0, chunkData |-> Text("f1", 0, 1)]}

HostJoins(n) ==
  /\ hist[n].count < MaxGrams
  /\ \E host \in {h \in LanHosts : h.peerId \notin PeerIds(peers[n])} :
       handleUDPMessage(n, HostEnvelope(n, host, "join", StreamBase + hist[n].count + 1),
                        host.rinfo, net)

NextCast ==
  \/ \E u \in RawNames : JoinRoomStart("A", DemoRaw, u)
  \/ join["A"].attempt = 0 /\ JoinBindFailed("A", "EADDRINUSE")
  \/ JoinBindOk("A")
  \/ requestChatHistory("A")
  \/ \E st \in Structures, fl \in FileLists : SendMessage("A", st, fl)
  \/ \E c \in Chunks : SendFileChunk("A", c)
  \/ LeaveRoomStart("A")
  \/ LeaveRoomFinish("A")
  \/ Deliver("A")
  \/ HostJoins("A")

SpecCast == Init /\ [][NextCast]_vars

\* handler runs that end in a call of broadcastMessage
BroadcastOps == {"join-room", "send-message", "send-file-chunk", "leave-room:start"}

Broadcasting(e) == e.op \in BroadcastOps /\ e.success

C25_HistoryRequestFansOut ==
  (ev.op = "history-timer" /\ udpSocket[ev.node] # 0 /\ Truthy(currentRoom[ev.node])) =>
    LET n == ev.node
        tbl == peers[n]
        w == ev.wire
    IN /\ Len(w) = Len(tbl) + 1
       /\ \A i \in DOMAIN w : w[i].env.type = "history_request"
       /\ \A i \in DOMAIN tbl :
             w[i].address = tbl[i].address /\ w[i].port = tbl[i].port
       /\ w[Len(w)].address = BROADCAST
       /\ w[Len(w)].port = BASE_PORT + (Digest16(currentRoom[n]) % HASH_MOD)

\* the datagrams of a replay that follow its i-th `message` envelope and come
\* before the next one
SegmentOf(w, i) ==
  {q \in DOMAIN w :
     /\ w[q].env.type # "message"
     /\ Cardinality({r \in 1..q : w[r].env.type = "message"}) = i}

\* C26: in a history replay the `message` envelope of every log entry that
\* has files is followed, before the next `message` envelope, by `file_chunk`
\* envelopes for each of its files, whether the node sent the entry itself or
\* logged it on receipt.
C26_ReplaySendsChunks ==
  (ev.op = "recv" /\ ev.dispatched = "history_request") =>
     LET log == messages[ev.node]
         w == ev.wire
     IN \A i \in DOMAIN log :
          \A j \in DOMAIN log[i].files :
             \E q \in SegmentOf(w, i) :
                /\ w[q].env.type = "file_chunk"
                /\ Carried(w[q], roomKey[ev.node]).fileId = log[i].files[j].id

----------------------------------------------------------------------------
(* Chunking: node A joins Demo and sends one message with files whose       *)
(* payloads are base64 text of various lengths; hosts on the LAN ask for   *)
(* the history.                                                             *)

\* length of the base64 text of a file of `size` bytes
Base64Len(size) == 4 * ((size + 2) \div 3)

\* the payload of a file: its whole base64 text
Encoded(id, size) == Text(id, 0, Base64Len(size))

FileSizes == {1} \cup {k * 45000 + e : k \in 1..MaxThirds, e \in {0, 1}}

Attachment(id, size) == [id |-> id, name |-> "a.bin", size |-> size, data |-> Encoded(id, size)]

ChunkFiles ==
  {<<Attachment("f1", size)>> : size \in FileSizes}
  \cup {<<Attachment("f1", 1), Attachment("f2", 2)>>}

HostAsks(n) ==
  /\ hist[n].count < MaxGrams
  /\ \E host \in LanHosts :
       handleUDPMessage(n, HostEnvelope(n, host, "history_request",
                                        StreamBase + hist[n].count + 1),
                        host.rinfo, net)

NextChunk ==
  \/ nextPeer = 1 /\ \E u \in RawNames : JoinRoomStart("A", DemoRaw, u)
  \/ JoinBindOk("A")
  \/ requestChatHistory("A")
  \/ udpSocket["A"] # 0 /\ messages["A"] = <<>>
       /\ \E st \in Structures, fl \in ChunkFiles : SendMessage("A", st, fl)
  \/ Deliver("A")
  \/ HostAsks("A")

SpecChunk == Init /\ [][NextChunk]_vars

\* the chunk contents a replay sent for file f of log entry i, by chunk index
ChunksOf(w, i, f, key) ==
  {Carried(w[q], key) : q \in {r \in SegmentOf(w, i) :
                                /\ w[r].env.type = "file_chunk"
                                /\ Carried(w[r], key).fileId = f.id}}

\* the chunk data with indices 0..count-1 concatenated in index order
RECURSIVE Glue(_, _)
Glue(chunks, count) ==
  LET last == (CHOOSE c \in chunks : c.chunkIndex = count - 1).chunkData
  IN IF count = 1 THEN last ELSE Cat(Glue(chunks, count - 1), last)

C29_ChunkCountFromSize ==
  (ev.op = "recv" /\ ev.dispatched = "history_request") =>
     LET log == messages[ev.node]
     IN \A i \in DOMAIN log : \A j \in DOMAIN log[i].files :
          LET f == log[i].files[j]
          IN f.data # NoData =>
               Cardinality(ChunksOf(ev.wire, i, f, roomKey[ev.node]))
                 = (f.size + CHUNK_SIZE - 1) \div CHUNK_SIZE

\* the properties of a file object that are present in its JSON
Properties(file) == {p \in DOMAIN file : p = "data" => file.data # NoData}

\* C27: the `message` envelope a replay sends for a log entry carries, for each
\* file of the entry, the metadata id, name, size and totalChunks, with the
\* values of the entry's file.
C27_ReplayedMetadataComplete ==
  (ev.op = "recv" /\ ev.dispatched = "history_request") =>
     LET log == messages[ev.node]
         replayed == SelectSeq(ev.wire, LAMBDA d : d.env.type = "message")
     IN \A i \in DOMAIN replayed :
          LET files == Carried(replayed[i], roomKey[ev.node]).files
          IN /\ Len(files) = Len(log[i].files)
             /\ \A j \in DOMAIN files :
                  /\ files[j].id = log[i].files[j].id
                  /\ files[j].name = log[i].files[j].name
                  /\ files[j].size = log[i].files[j].size
                  /\ {"id", "name", "size", "totalChunks"} \subseteq Properties(files[j])

----------------------------------------------------------------------------
(* The message log *)

\* C31: within a session every step leaves a node's log as it is or appends
\* one record at its end; the records already there keep their place and
\* their content.  Checked under SpecPeers: local sends, inbound datagrams of
\* every type and history replays.
C31_LogAppendOnly ==
  [][\A n \in Nodes :
       LET old == messages[n]
           new == messages'[n]
       IN ev'.op # "leave-room" =>
            /\ Len(new) \in {Len(old), Len(old) + 1}
            /\ SubSeq(new, 1, Len(old)) = old]_vars

\* a received message was appended behind a message the node had sent
C31_Witness ==
  /\ ev.op = "recv" /\ ev.dispatched = "message"
  /\ Len(messages[ev.node]) = 2
  /\ messages[ev.node][1].sender = displayName[ev.node]
  /\ messages[ev.node][2].id = ev.messageId

\* C32: no message id occurs twice in the log of a node; a message the node
\* sent itself is not appended again when a peer replays it to the node.
C32_NoDuplicateIds ==
  \A n \in Nodes : \A i, j \in DOMAIN messages[n] :
     i # j => messages[n][i].id # messages[n][j].id

----------------------------------------------------------------------------
(* What a datagram needs the room key for *)

\* the content of the envelope was sealed and opens under the key
OpenedUnderKey(message, key) ==
  /\ message # NotJson
  /\ message.encrypted # NoSeal /\ key # Null
  /\ decrypt(message.encrypted, key) # NoContent

\* C33: a received `message` envelope is appended to the log and shown only
\* when its content came out of an `encrypted` field that opened under the
\* room key; one that carries its content in the clear is never logged.
\* Checked under SpecRecv.
C33_OnlySealedLogged ==
  [][\A n \in Nodes :
       (ev'.op = "recv" /\ ev'.node = n
        /\ (messages'[n] # messages[n] \/ ev'.ui = "new-message")) =>
          OpenedUnderKey(ev'.env, roomKey[n])]_vars

\* C36: a datagram dropped because its payload did not open does not keep a
\* later datagram with the same message id from being dispatched: a
\* well-formed datagram of another peer that opens under the room key is
\* dispatched unless its id was dispatched before.  hist[n].at holds the ids
\* dispatched so far, this datagram's included.  Checked under SpecRecv.
C36_FailedOpenNotCached ==
  (/\ ev.op = "recv" /\ ~ev.own /\ ev.messageId # 0
   /\ OpenedUnderKey(ev.env, roomKey[ev.node])) =>
     ev.messageId \in DOMAIN hist[ev.node].at

\* a datagram that no party without the room key can have made: it carries
\* content sealed under that key
NeedsKey(message, key) == message.encrypted # NoSeal /\ message.encrypted.key = key

\* C34: a datagram from a party that does not hold the room key never changes
\* the peer table of the receiver (no record inserted, none removed by a
\* `leave`) and never sets off a history replay.  Checked under SpecPeers.
C34_KeylessCannotTouchPeers ==
  [][\A n \in Nodes :
       (ev'.op = "recv" /\ ev'.node = n /\ ~NeedsKey(ev'.env, roomKey[n])) =>
          /\ peers'[n] = peers[n]
          /\ ev'.dispatched # "history_request"
          /\ ev'.wire = <<>>]_vars

----------------------------------------------------------------------------
(* Two-phase eviction, checked under SpecSweep *)

\* C35: a peer whose record was refreshed by a datagram after the sweep marked
\* it (so the mark is gone) is still in the table after the removal timer
\* fired; and a sweep neither marks again nor arms another removal for a
\* record that is already marked.
C35_LivePeerSurvivesRemoval ==
  [][\A n \in Nodes :
       /\ (ev'.op = "peer-removed" /\ ev'.node = n) =>
             \A i \in DOMAIN peers[n] :
                ~peers[n][i].hasTimedOut => peers[n][i].peerId \in PeerIds(peers'[n])
       /\ (ev'.op = "sweep" /\ ev'.node = n) =>
             \A i \in DOMAIN peers[n] :
                peers[n][i].hasTimedOut =>
                   /\ peers'[n][i] = peers[n][i]
                   /\ \A r \in timers'[n].removals \ timers[n].removals :
                         r.peerId # peers[n][i].peerId]_vars

----------------------------------------------------------------------------
(* Names in the peer table: node A in a room with the two hosts, which send *)
(* envelopes of their own and replay what the other wrote.                  *)

NextNames ==
  \/ nextPeer = 1 /\ \E u \in RawNames : JoinRoomStart("A", DemoRaw, u)
  \/ JoinBindOk("A")
  \/ requestChatHistory("A")
  \/ Deliver("A")
  \/ HostDatagram("A")
  \/ HostReplay("A")

SpecNames == Init /\ [][NextNames]_vars

\* C37: the display name a node's peer table holds for a peer is a name that
\* peer gave itself; a replay by that peer of messages others wrote does not
\* put their names on its record.
C37_PeerNameIsOwn ==
  \A n \in Nodes : \A i \in DOMAIN peers[n] : \A host \in LanHosts :
     peers[n][i].peerId = host.peerId => peers[n][i].displayName = host.name

----------------------------------------------------------------------------
(* The history-request timer and the life cycle, checked under Spec *)

\* C38: the 500 ms history-request timer is harmless when the session ended
\* first: fired on an Idle node it sends nothing, changes no state and raises
\* no error; and the timers send at most one history_request per successful
\* join (each fire uses up one timer and sends at most one datagram, and only
\* a successful join-room arms one).
C38_LateTimerHarmless ==
  [][\A n \in Nodes :
       /\ (ev'.op = "history-timer" /\ ev'.node = n /\ Idle(n)) =>
             /\ ev'.wire = <<>>
             /\ ~ev'.error
             /\ UNCHANGED <<udpSocket, currentRoom, displayName, myPeerId, roomKey,
                            peers, messages, processedMessages>>
       /\ (ev'.op = "history-timer" /\ ev'.node = n) =>
             /\ Len(ev'.wire) <= 1
             /\ histTimers'[n] = histTimers[n] - 1
       /\ histTimers'[n] > histTimers[n] =>
             /\ ev'.op = "join-room" /\ ev'.node = n /\ ev'.success
             /\ histTimers'[n] = histTimers[n] + 1]_vars

\* C39: whenever join-room returns {success:true, port} the node is Joined at
\* that moment: the socket is open and bound to that port, the current room,
\* the room key and the local peer id are set, and a join envelope was
\* broadcast; also when join-room was called during leave-room's drain wait.
C39_SuccessMeansJoined ==
  (ev.op = "join-room" /\ ev.success) =>
     /\ udpSocket[ev.node] # 0 /\ udpSocket[ev.node] = ev.port
     /\ Truthy(currentRoom[ev.node])
     /\ roomKey[ev.node] # Null
     /\ myPeerId[ev.node] # 0
     /\ \E i \in DOMAIN ev.wire : ev.wire[i].env.type = "join"

====
